---- MODULE Spec2Model ----
(***************************************************************************)
(* GTFS-RT archiver: the fetch job (semaphore, fetch with retry, upload    *)
(* with retry, metrics), the blob writer and the feed scheduler; the       *)
(* secret cache, run() with its health server, feed sharding, the feed     *)
(* catalog, the dagster compaction with its partition keys, the request    *)
(* query, the shared storage handle, fetch_feed_safe and the timers.       *)
(***************************************************************************)
EXTENDS Integers, Sequences, FiniteSets, Bags, TLC

\* ------------------------------------------------------------------ bounds
MaxTasks == 2
MaxCalls == 2
MaxTicks == 1
MaxJobErrors == 1
MaxPermits == 2
MaxAttemptsBound == 2
MaxTime == 1
MaxShards == 4
MaxEntities == 2
MaxChildren == 2
MaxFiles == 2
MaxUrlLen == 4
MaxCatalogFeeds == 2
MaxParams == 2
MaxWriters == 3
MaxCloses == 1
MaxStarts == 2
MaxIgnored == 2

\* --------------------------------------------------------------- constants
Feeds == {"feed-0", "feed-1"}
Tasks == 1..MaxTasks

\* int(md5(feed.id).hexdigest(), 16) reduced modulo 2520 (= lcm(1..10)), which
\* keeps the residue modulo every shard count in 1..10
FeedHash(f) == CASE f = "feed-0" -> 1513 [] f = "feed-1" -> 19 [] OTHER -> 474

\* the set without 410
NonRetryableWithout410 == {400, 401, 403, 404}

NON_RETRYABLE_STATUS_CODES == {400, 401, 403, 404, 410}

RETRYABLE_EXCEPTIONS == {"TransportError", "TimeoutException", "HTTPStatusError"}

UPLOAD_RETRY_EXCEPTIONS == {"ClientError", "TimeoutError", "ConnectionError"}

UploadMaxAttempts == 3

\* number of positional parameters of fetch_job(feed)
FetchJobParams == 1

\* number of arguments in self._fetch_job(feed, scheduled_time)
SchedulerCallArgs == 2

\* StorageWriter(bucket=...) leaves write_metadata at its default
write_metadata == TRUE

\* the fields class FeedConfig declares; reading any other attribute of a
\* FeedConfig raises AttributeError
FeedConfigFields ==
    {"id", "name", "url", "feed_type", "agency_id", "agency_name", "system_id",
     "system_name", "schedule_url", "interval_seconds", "timeout_seconds",
     "retry", "auth"}

\* what an expression that raised AttributeError yields
AttributeError == <<"AttributeError">>

\* feed.feed_type.value and str(feed.url) of the configured feeds
feed_type == [f \in Feeds |-> "vehicle_positions"]

url == [f \in Feeds |-> IF f = "feed-0" THEN "https://example.com/0.pb"
                                         ELSE "https://example.com/1.pb"]

\* what one client.get() can produce: a response with a status, or an exception
Statuses == {200, 400, 401, 403, 404, 408, 410, 429, 500}

NoOutcome == [kind |-> "none", code |-> 0]

HttpOutcomes ==
    [kind : {"status"}, code : Statuses]
        \cup [kind : {"timeout", "transport", "other"}, code : {0}]

\* what one storage.upload() can produce
UploadOutcomes == {"ok", "ClientError", "TimeoutError", "ConnectionError", "Exception"}

\* one outcome of each class, for the runs with several coroutines
FewHttpOutcomes ==
    {[kind |-> "status", code |-> 200], [kind |-> "status", code |-> 404],
     [kind |-> "status", code |-> 500]}

FewUploadOutcomes == {"ok", "Exception"}

\* AuthConfig.secret_name of the secrets the configuration refers to
Secrets == {"secret-a", "secret-b"}

\* ------------------------------------------------------------------- state
VARIABLES
    now,            \* datetime.now(UTC), in clock ticks
    max_concurrent, \* settings.max_concurrent
    max_attempts,   \* feed.retry.max_attempts, per feed
    permits,        \* the semaphore's free permits
    tasks,          \* the fetch_job coroutines, one record per slot
    calls,          \* invocations made so far
    fetch_total,    \* gtfs_rt_fetch_total, per feed
    fetch_success,  \* gtfs_rt_fetch_success_total, per feed
    fetch_errors,   \* gtfs_rt_fetch_errors_total, per feed a bag of error_type
    upload_success, \* gtfs_rt_upload_success_total, per feed
    upload_errors,  \* gtfs_rt_upload_errors_total, per feed a bag of error_type
    blobs,          \* object names present in the bucket
    sched,          \* FeedScheduler._scheduler: "none", "started", "stopping"
    registered,     \* self._id in _scheduler_registry
    feeds_by_id,    \* keys of FeedScheduler._feeds_by_id
    job_errors,     \* per feed: scheduler invocations whose call of the job raised
    at_stop,        \* tasks that were in flight when stop() was called
    auth,           \* per feed: feed.auth.secret_name, "none" for feed.auth = None
    gcp_project_id, \* settings.gcp_project_id is set
    secret_cache,   \* keys of secrets._secret_cache
    store_reads,    \* per secret: access_secret_version calls since the last clear_cache()
    resolver,       \* per feed: the resolve_auth_config coroutine of its auth
    resolved,       \* per feed: feed.auth.resolved_value is populated
    run_pc,         \* where run() stands
    health,         \* the HealthServer: "new", "started", "stopped"
    http_client,    \* the httpx client of run(): "none", "open", "closed"
    storage_writer, \* the StorageWriter of run(): "none", "open", "closed"
    shutdown_event, \* the asyncio.Event the signal handlers set
    n_shards,       \* settings.total_shards of the deployment
    answers,        \* the should_handle_feed results obtained so far
    ready_responses, \* the answers GET /ready has given: <<run_pc, is_running, response>>
    feed_message,   \* a parsed FeedMessage: its entities
    extractor,      \* the extractor applied to feed_message, "none" before
    records,        \* list(extractor(feed, pb_file, feed_url))
    asset_type,     \* feed_type of the compaction asset that runs
    listed,         \* the partition's .pb objects in the order bucket.list_blobs yields them
    pb_files,       \* the partition's .pb objects as list_pb_files returns them
    file_pos,       \* position of the for loop in pb_files
    compact_pc,     \* where compact_single_feed stands
    writer,         \* the ParquetWriter: "none", "open", "closed"
    buffer,         \* rows written to the writer's buffer
    records_count,  \* records_count
    parquet_bucket, \* objects of the parquet bucket: <<name, rows>>
    uploads,        \* calls of upload_from_file
    output,         \* files_processed and records_written of the returned Output
    feed_url,       \* a feed URL, as a sequence of characters
    partition_key,  \* url_to_partition_key(feed_url)
    key_url,        \* partition_key_to_url(partition_key)
    codec_pc,       \* "url", "key" after the first conversion, "back" after the second
    agencies_config, \* the content of the agencies file: a list of agencies
    load_pc,        \* "file", "invalid" or "validated" after validation, "flattened"
    flat_feeds,     \* the list flatten_agencies returned
    url_query,      \* the query of feed.url: a list of <<name, value>> pairs
    auth_type,      \* feed.auth.type, "none" for a feed without resolved auth
    request_query,  \* the query of the request client.get sends: a bag of pairs
    request_pc,     \* "built" before client.get is called, "sent" after
    storage,        \* StorageWriter._storage: 0 for None, else the number of the handle
    handles,        \* Storage(...) objects created so far
    writers,        \* the StorageWriter.write calls in progress: where each stands, its handle
    closes,         \* calls of StorageWriter.close() so far
    closing,        \* the handle a close() is awaiting the close of, 0 for none
    safe_feed,      \* the feed fetch_feed_safe was called for
    safe_pc,        \* fetch_feed_safe: "idle", "fetching", "returned", "raised"
    safe_outcomes,  \* the outcomes of the attempts fetch_feed made for it
    safe_result,    \* what the call returned, or the exception class it raised
    starts,         \* AsyncSchedulers the FeedScheduler has created and started
    ignored         \* per feed: tick callbacks that returned without calling the job

vars ==
    <<now, max_concurrent, max_attempts, permits, tasks, calls, fetch_total,
      fetch_success, fetch_errors, upload_success, upload_errors, blobs, sched,
      registered, feeds_by_id, job_errors, at_stop, auth, gcp_project_id,
      secret_cache, store_reads, resolver, resolved, run_pc, health, http_client,
      storage_writer, shutdown_event, n_shards, answers, ready_responses,
      feed_message, extractor, records, asset_type, listed, pb_files, file_pos, compact_pc,
      writer, buffer, records_count, parquet_bucket, uploads, output, feed_url,
      partition_key, key_url, codec_pc, agencies_config, load_pc, flat_feeds,
      url_query, auth_type, request_query, request_pc, storage, handles, writers,
      closes, closing, safe_feed, safe_pc, safe_outcomes, safe_result, starts,
      ignored>>

metrics == <<fetch_total, fetch_success, fetch_errors, upload_success, upload_errors>>

config == <<max_concurrent, max_attempts>>

scheduler == <<sched, registered, feeds_by_id>>

\* the fetch job, its metrics, the bucket and the scheduler
job == <<now, config, permits, tasks, calls, metrics, blobs, scheduler, job_errors, at_stop>>

secrets == <<auth, gcp_project_id, secret_cache, store_reads, resolver, resolved>>

services == <<run_pc, health, http_client, storage_writer, shutdown_event>>

shards == <<n_shards, answers>>

\* everything outside the fetch job and the scheduler
\* what the clients of the health server were told
probes == <<ready_responses>>

\* one extractor applied to one FeedMessage
extraction == <<feed_message, extractor, records>>

\* one run of compact_single_feed
compaction ==
    <<asset_type, listed, pb_files, file_pos, compact_pc, writer, buffer, records_count,
      parquet_bucket, uploads, output>>

\* one URL taken to its partition key and back
codec == <<feed_url, partition_key, key_url, codec_pc>>

\* the feed catalog from the file to the flattened list
catalog == <<agencies_config, load_pc, flat_feeds>>

\* one request built by _do_fetch
request == <<url_query, auth_type, request_query, request_pc>>

\* what the clients of the feed servers and of the blob store keep
\* one StorageWriter and the calls on it
blobstore == <<storage, handles, writers, closes, closing>>

\* one call of fetch_feed_safe
safe == <<safe_feed, safe_pc, safe_outcomes, safe_result>>

\* the timers of one FeedScheduler instance
timers == <<starts, ignored>>

clients == <<request, blobstore, safe, timers>>

pipeline == <<extraction, compaction, codec, catalog, clients>>

process == <<secrets, services, shards, probes, pipeline>>

IdleTask ==
    [pc |-> "idle", feed |-> "feed-0", origin |-> "none", requests |-> 0,
     first |-> NoOutcome, last |-> NoOutcome, raised |-> "none",
     thrown |-> NoOutcome,
     ok_attempt |-> 0, ts |-> 0, writes |-> 0, upload_exc |-> "none",
     ended |-> "none"]

\* ------------------------------------------------------- fetcher.py helpers

\* response.raise_for_status() passes 2xx only
IsSuccess(code) == code \in 200..299

\* a _do_fetch for which every 4xx status is final
do_fetch_4xx_final(r) ==
    CASE r.kind = "timeout" -> "TimeoutException"
      [] r.kind = "transport" -> "TransportError"
      [] r.kind = "other" -> "RuntimeError"
      [] r.kind = "status" /\ r.code \in 400..499 -> "NonRetryableError"
      [] r.kind = "status" /\ IsSuccess(r.code) -> "ok"
      [] OTHER -> "HTTPStatusError"

\* the exception class _do_fetch raises for an outcome, "ok" when it returns
do_fetch(r) ==
    CASE r.kind = "timeout" -> "TimeoutException"
      [] r.kind = "transport" -> "TransportError"
      [] r.kind = "other" -> "RuntimeError"
      [] r.kind = "status" /\ r.code \in NON_RETRYABLE_STATUS_CODES -> "NonRetryableError"
      [] r.kind = "status" /\ IsSuccess(r.code) -> "ok"
      [] OTHER -> "HTTPStatusError"

\* a stop condition that lets one attempt too many through
RetryingOneTooMany(exc, attempt, maxAttempts) ==
    exc \in RETRYABLE_EXCEPTIONS /\ attempt <= maxAttempts

\* tenacity: retry_if_exception_type(RETRYABLE_EXCEPTIONS) and
\* stop_after_attempt(max_attempts); attempt is the number of the failed attempt
create_retrying(exc, attempt, maxAttempts) ==
    exc \in RETRYABLE_EXCEPTIONS /\ attempt < maxAttempts

\* reraise=True: the exception of the last attempt leaves fetch_feed
Reraised(first, last) == last

\* ------------------------------------------------------ __main__.py helpers

\* the except chain without its final "except Exception"
HandlerForNoCatchAll(exc) ==
    CASE exc = "NonRetryableError" -> "non_retryable"
      [] exc = "TimeoutException" -> "timeout"
      [] exc = "TransportError" -> "transport"
      [] exc = "HTTPStatusError" -> "http_status"
      [] OTHER -> "none"

\* the except chain with the TransportError clause ahead of the
\* TimeoutException clause, which then never matches
HandlerForTransportFirst(exc) ==
    CASE exc = "NonRetryableError" -> "non_retryable"
      [] exc \in {"TransportError", "TimeoutException"} -> "transport"
      [] exc = "HTTPStatusError" -> "http_status"
      [] OTHER -> "unknown"

\* the except clause of fetch_job that handles exc, "none" when none does
HandlerFor(exc) ==
    CASE exc = "NonRetryableError" -> "non_retryable"
      [] exc = "TimeoutException" -> "timeout"
      [] exc = "TransportError" -> "transport"
      [] exc = "HTTPStatusError" -> "http_status"
      [] OTHER -> "unknown"

\* the error_type label the handler passes to record_fetch_error
ErrorType(handler, r) ==
    CASE handler \in {"non_retryable", "http_status"} -> "http_" \o ToString(r.code)
      [] handler = "timeout" -> "timeout"
      [] handler = "transport" -> "transport"
      [] OTHER -> "unknown"

\* a retry on every exception class
upload_with_retry_any(exc, attempt) == attempt < UploadMaxAttempts

\* retry=retry_if_exception_type((ClientError, TimeoutError, ConnectionError)),
\* stop=stop_after_attempt(3)
upload_with_retry(exc, attempt) ==
    exc \in UPLOAD_RETRY_EXCEPTIONS /\ attempt < UploadMaxAttempts

\* a counter without the feed_id label: the increment shows under every feed
record_fetch_error_unlabelled(errors, f, error_type) ==
    [g \in Feeds |-> errors[g] (+) SetToBag({error_type})]

\* fetch_errors.labels(**get_labels(feed_id, ...), error_type=error_type).inc()
record_fetch_error(errors, f, error_type) ==
    [errors EXCEPT ![f] = @ (+) SetToBag({error_type})]

\* upload_errors.labels(**get_labels(feed_id, ...), error_type=error_type).inc()
record_upload_error(errors, f, error_type) ==
    [errors EXCEPT ![f] = @ (+) SetToBag({error_type})]

\* an entry that never waits
CanAcquireAlways(p) == TRUE

\* an exit that keeps the permit
ReleaseLeak(p) == p

\* async with semaphore: entering needs a free permit
CanAcquire(p) == p > 0

\* async with semaphore: leaving gives the permit back on every exit path
Release(p) == p + 1

\* --------------------------------------------------------- storage.py helpers

\* a key built from declared fields of the feed only
generate_storage_path_declared(f, ts, ext) == <<feed_type[f], url[f], ts, ext>>

\* generate_storage_path: the key is made of feed.feed_type, the timestamp
\* (date, hour, and the millisecond ts counts), the base64url of feed.url with
\* feed.query_params, and the extension; it reads feed.query_params, which
\* raises for an object without that attribute
generate_storage_path(f, ts, ext) ==
    IF "query_params" \in FeedConfigFields
    THEN <<feed_type[f], url[f], ts, ext>>
    ELSE AttributeError

\* ------------------------------------------------------- scheduler.py helpers

\* a reduction by a modulus one larger than the number of shards
should_handle_feed_wide(f, shard_index, total_shards) ==
    IF total_shards <= 1 THEN TRUE
    ELSE FeedHash(f) % (total_shards + 1) = shard_index

\* should_handle_feed: every feed with at most one shard, else the shard whose
\* index is the md5 of the feed id modulo the number of shards
should_handle_feed(f, shard_index, total_shards) ==
    IF total_shards <= 1 THEN TRUE ELSE FeedHash(f) % total_shards = shard_index

\* FeedScheduler.is_running: a scheduler exists and its state is "started"
is_running == sched # "none" /\ sched = "started"

InFlight(t) == tasks[t].pc \in {"queued", "fetching", "write_pb", "write_meta"}

Holding(t) == tasks[t].pc \in {"fetching", "write_pb", "write_meta"}

\* -------------------------------------------------------------------- init
InitJob ==
    /\ now = 0
    /\ max_concurrent \in 1..MaxPermits
    /\ max_attempts \in {[f \in Feeds |-> n] : n \in 1..MaxAttemptsBound}
    /\ permits = max_concurrent
    /\ tasks = [t \in Tasks |-> IdleTask]
    /\ calls = 0
    /\ fetch_total = [f \in Feeds |-> 0]
    /\ fetch_success = [f \in Feeds |-> 0]
    /\ fetch_errors = [f \in Feeds |-> EmptyBag]
    /\ upload_success = [f \in Feeds |-> 0]
    /\ upload_errors = [f \in Feeds |-> EmptyBag]
    /\ blobs = {}
    /\ sched = "none"
    /\ registered = FALSE
    /\ feeds_by_id = {}
    /\ job_errors = [f \in Feeds |-> 0]
    /\ at_stop = {}

\* the secret cache and the resolvers before any call
InitSecretState ==
    /\ secret_cache = {}
    /\ store_reads = [s \in Secrets |-> 0]
    /\ resolver = [f \in Feeds |-> "idle"]
    /\ resolved = [f \in Feeds |-> FALSE]

\* run() not entered
InitServices ==
    /\ run_pc = "init"
    /\ health = "new"
    /\ http_client = "none"
    /\ storage_writer = "none"
    /\ shutdown_event = FALSE

InitShards ==
    /\ n_shards = 1
    /\ answers = {}

\* no request served yet
InitProbes == ready_responses = {}

\* no FeedMessage at hand
InitExtraction ==
    /\ feed_message = << >>
    /\ extractor = "none"
    /\ records = << >>

\* no catalog loaded
InitCatalog ==
    /\ agencies_config = << >>
    /\ load_pc = "file"
    /\ flat_feeds = << >>

\* no request built
InitRequest ==
    /\ url_query = << >>
    /\ auth_type = "none"
    /\ request_query = EmptyBag
    /\ request_pc = "built"

\* a new StorageWriter: no handle, no call
InitBlobstore ==
    /\ storage = 0
    /\ handles = 0
    /\ writers = [w \in 1..MaxWriters |-> [pc |-> "idle", handle |-> 0]]
    /\ closes = 0
    /\ closing = 0

\* fetch_feed_safe not called
InitSafe ==
    /\ safe_feed = "feed-0"
    /\ safe_pc = "idle"
    /\ safe_outcomes = << >>
    /\ safe_result = "none"

\* a FeedScheduler that was never started
InitTimers ==
    /\ starts = 0
    /\ ignored = [f \in Feeds |-> 0]

InitClients == InitRequest /\ InitBlobstore /\ InitSafe /\ InitTimers

\* no URL converted
InitCodec ==
    /\ feed_url = << >>
    /\ partition_key = << >>
    /\ key_url = << >>
    /\ codec_pc = "url"

\* no compaction asset running
InitCompaction ==
    /\ asset_type = "vehicle_positions"
    /\ listed = << >>
    /\ pb_files = << >>
    /\ file_pos = 1
    /\ compact_pc = "idle"
    /\ writer = "none"
    /\ buffer = << >>
    /\ records_count = 0
    /\ parquet_bucket = {}
    /\ uploads = 0
    /\ output = << >>

\* feeds without auth, fetched by calls of the job
Init ==
    /\ InitJob
    /\ auth = [f \in Feeds |-> "none"]
    /\ gcp_project_id = FALSE
    /\ InitSecretState
    /\ InitServices
    /\ InitShards
    /\ InitProbes
    /\ InitExtraction
    /\ InitCompaction
    /\ InitCodec
    /\ InitCatalog
    /\ InitClients

\* ----------------------------------------------------------------- actions

\* the clock moves
Advance ==
    /\ now < MaxTime
    /\ now' = now + 1
    /\ UNCHANGED <<config, permits, tasks, calls, metrics, blobs, scheduler,
                   job_errors, at_stop>>

\* a call of the job with nargs positional arguments: Python binds the
\* arguments before the coroutine exists, so a wrong count raises TypeError
\* and nothing of the job runs
Invoke(f, nargs, origin) ==
    /\ IF nargs = FetchJobParams
       THEN /\ calls < MaxCalls
            /\ calls' = calls + 1
            /\ \E t \in Tasks :
                 /\ tasks[t].pc = "idle"
                 /\ \A u \in Tasks : u < t => tasks[u].pc # "idle"
                 /\ tasks' = [tasks EXCEPT ![t] =
                        [IdleTask EXCEPT !.pc = "queued", !.feed = f, !.origin = origin]]
            /\ UNCHANGED job_errors
       ELSE /\ job_errors[f] < MaxJobErrors
            /\ job_errors' = [job_errors EXCEPT ![f] = @ + 1]
            /\ UNCHANGED <<tasks, calls>>
    /\ UNCHANGED <<now, config, permits, metrics, blobs, scheduler, at_stop>>

\* await fetch_job(feed), as the callers of create_fetch_job's result do
fetch_job(f) == Invoke(f, FetchJobParams, "direct")

\* a timer of the started scheduler fires for feed f
execute_scheduled_fetch(f) ==
    /\ sched = "started"
    /\ registered
    /\ f \in feeds_by_id
    /\ Invoke(f, SchedulerCallArgs, "timer")

\* FeedScheduler.run_once(feed)
run_once(f) == Invoke(f, SchedulerCallArgs, "run_once")

\* the semaphore admits the coroutine; record_fetch_attempt
Acquire(t) ==
    /\ tasks[t].pc = "queued"
    /\ CanAcquire(permits)
    /\ permits' = permits - 1
    /\ fetch_total' = [fetch_total EXCEPT ![tasks[t].feed] = @ + 1]
    /\ tasks' = [tasks EXCEPT ![t].pc = "fetching"]
    /\ UNCHANGED <<now, config, calls, fetch_success, fetch_errors, upload_success,
                   upload_errors, blobs, scheduler, job_errors, at_stop>>

\* one attempt of fetch_feed's retry loop with outcome r, and, when the loop
\* ends with an exception, fetch_job's handler and the release of the permit
Attempt(t, r) ==
    LET cur == tasks[t]
        f == cur.feed
        n == cur.requests + 1
        exc == do_fetch(r)
        first == IF cur.requests = 0 THEN r ELSE cur.first
    IN  /\ cur.pc = "fetching"
        /\ IF exc = "ok"
           THEN /\ tasks' = [tasks EXCEPT ![t] =
                       [cur EXCEPT !.pc = "write_pb", !.requests = n, !.last = r,
                                   !.first = first, !.ok_attempt = n, !.ts = now,
                                   !.writes = 1]]
                /\ fetch_success' = [fetch_success EXCEPT ![f] = @ + 1]
                /\ UNCHANGED <<permits, fetch_errors>>
           ELSE IF create_retrying(exc, n, max_attempts[f])
           THEN /\ tasks' = [tasks EXCEPT ![t] =
                       [cur EXCEPT !.requests = n, !.last = r, !.first = first]]
                /\ UNCHANGED <<permits, fetch_success, fetch_errors>>
           ELSE LET thrown == Reraised(first, r)
                    h == HandlerFor(do_fetch(thrown))
                IN  /\ tasks' = [tasks EXCEPT ![t] =
                           [cur EXCEPT !.pc = "done", !.requests = n, !.last = r,
                                       !.first = first, !.raised = do_fetch(thrown),
                                       !.thrown = thrown,
                                       !.ended = IF h = "none" THEN "raised" ELSE "returned"]]
                    /\ fetch_errors' =
                           IF h = "none" THEN fetch_errors
                           ELSE record_fetch_error(fetch_errors, f, ErrorType(h, thrown))
                    /\ permits' = Release(permits)
                    /\ UNCHANGED fetch_success
        /\ UNCHANGED <<now, config, calls, fetch_total, upload_success, upload_errors,
                       blobs, scheduler, job_errors, at_stop>>

\* the end of the upload: record_upload_success or record_upload_error, then
\* the permit is released and fetch_job returns
FinishUpload(t, u) ==
    LET cur == tasks[t]
        f == cur.feed
    IN  /\ tasks' = [tasks EXCEPT ![t] =
               [cur EXCEPT !.pc = "done", !.ended = "returned",
                           !.upload_exc = IF u = "ok" THEN @ ELSE u]]
        /\ permits' = Release(permits)
        /\ IF u = "ok"
           THEN /\ upload_success' = [upload_success EXCEPT ![f] = @ + 1]
                /\ UNCHANGED upload_errors
           ELSE /\ upload_errors' = record_upload_error(upload_errors, f, u)
                /\ UNCHANGED upload_success

\* an upload inside StorageWriter.write failed with u: tenacity starts write
\* again or the exception reaches fetch_job's inner handler
FailUpload(t, u) ==
    IF upload_with_retry(u, tasks[t].writes)
    THEN /\ tasks' = [tasks EXCEPT ![t] =
                [tasks[t] EXCEPT !.pc = "write_pb", !.writes = @ + 1,
                                 !.upload_exc = u]]
         /\ UNCHANGED <<permits, upload_success, upload_errors>>
    ELSE FinishUpload(t, u)

\* StorageWriter.write up to the upload of the payload object: the path is
\* generated first, and an exception there leaves write before any upload
UploadContent(t, u) ==
    LET cur == tasks[t]
        key == generate_storage_path(cur.feed, cur.ts, "pb")
    IN  /\ cur.pc = "write_pb"
        /\ IF key = AttributeError
           THEN /\ UNCHANGED blobs
                /\ FailUpload(t, "AttributeError")
           ELSE IF u = "ok"
           THEN /\ blobs' = blobs \cup {key}
                /\ IF write_metadata
                   THEN /\ tasks' = [tasks EXCEPT ![t].pc = "write_meta"]
                        /\ UNCHANGED <<permits, upload_success, upload_errors>>
                   ELSE FinishUpload(t, "ok")
           ELSE /\ UNCHANGED blobs
                /\ FailUpload(t, u)
        /\ UNCHANGED <<now, config, calls, fetch_total, fetch_success, fetch_errors,
                       scheduler, job_errors, at_stop>>

\* StorageWriter.write: the upload of the .meta sidecar
UploadMetadata(t, u) ==
    LET cur == tasks[t]
        key == generate_storage_path(cur.feed, cur.ts, "meta")
    IN  /\ cur.pc = "write_meta"
        /\ IF u = "ok"
           THEN /\ blobs' = blobs \cup {key}
                /\ FinishUpload(t, "ok")
           ELSE /\ UNCHANGED blobs
                /\ FailUpload(t, u)
        /\ UNCHANGED <<now, config, calls, fetch_total, fetch_success, fetch_errors,
                       scheduler, job_errors, at_stop>>

\* StorageWriter.write, one await at a time: the payload, then the sidecar
write(t, u) ==
    IF tasks[t].pc = "write_meta" THEN UploadMetadata(t, u) ELSE UploadContent(t, u)

\* the finished coroutine is dropped
Reap(t) ==
    /\ tasks[t].pc = "done"
    /\ tasks' = [tasks EXCEPT ![t] = IdleTask]
    /\ at_stop' = at_stop \ {t}
    /\ UNCHANGED <<now, config, permits, calls, metrics, blobs, scheduler, job_errors>>

\* a start that never calls start_in_background
start_without_background ==
    /\ sched = "none"
    /\ feeds_by_id' = {f \in Feeds : should_handle_feed(f, 0, 1)}
    /\ registered' = TRUE
    /\ sched' = "initialized"
    /\ UNCHANGED <<now, config, permits, tasks, calls, metrics, blobs, job_errors, at_stop>>

\* FeedScheduler.start with total_shards = 1, the default
start ==
    /\ sched = "none"
    /\ feeds_by_id' = {f \in Feeds : should_handle_feed(f, 0, 1)}
    /\ registered' = TRUE
    /\ sched' = "started"
    /\ UNCHANGED <<now, config, permits, tasks, calls, metrics, blobs, job_errors, at_stop>>

\* FeedScheduler.stop up to the await of the scheduler's shutdown; without a
\* scheduler only the registry entry is dropped
stop_begin ==
    /\ sched \in {"none", "started"}
    /\ IF sched = "started"
       THEN /\ sched' = "stopping"
            /\ at_stop' = {t \in Tasks : InFlight(t)}
            /\ UNCHANGED registered
       ELSE /\ registered' = FALSE
            /\ UNCHANGED <<sched, at_stop>>
    /\ UNCHANGED <<now, config, permits, tasks, calls, metrics, blobs, feeds_by_id,
                   job_errors>>

\* a stop() that leaves the instance in the registry
stop_end_registered ==
    /\ sched = "stopping"
    /\ sched' = "none"
    /\ UNCHANGED <<now, config, permits, tasks, calls, metrics, blobs, registered,
                   feeds_by_id, job_errors, at_stop>>

\* FeedScheduler.stop after the scheduler stopped: self._scheduler = None and
\* the registry entry is dropped
stop_end ==
    /\ sched = "stopping"
    /\ sched' = "none"
    /\ registered' = FALSE
    /\ UNCHANGED <<now, config, permits, tasks, calls, metrics, blobs, feeds_by_id,
                   job_errors, at_stop>>

\* the scheduler next to the coroutines of the job
Next ==
    \/ \E f \in Feeds :
          /\ calls < MaxTicks
          /\ \A t \in Tasks : tasks[t].pc = "idle"
          /\ fetch_job(f)
          /\ UNCHANGED process
    \/ \E f \in Feeds : execute_scheduled_fetch(f) /\ UNCHANGED process
    \/ \E f \in Feeds : run_once(f) /\ UNCHANGED process
    \/ \E t \in Tasks : Acquire(t) /\ UNCHANGED process
    \/ \E t \in Tasks, r \in FewHttpOutcomes : Attempt(t, r) /\ UNCHANGED process
    \/ \E t \in Tasks, u \in FewUploadOutcomes : write(t, u) /\ UNCHANGED process
    \/ \E t \in Tasks : Reap(t) /\ UNCHANGED process
    \/ start /\ UNCHANGED process
    \/ stop_begin /\ UNCHANGED process
    \/ stop_end /\ UNCHANGED process

Spec == Init /\ [][Next]_vars

\* several coroutines of the job compete for the semaphore
NextPool ==
    \/ \E f \in Feeds : fetch_job(f) /\ UNCHANGED process
    \/ \E t \in Tasks : Acquire(t) /\ UNCHANGED process
    \/ \E t \in Tasks, r \in FewHttpOutcomes : Attempt(t, r) /\ UNCHANGED process
    \/ \E t \in Tasks, u \in FewUploadOutcomes : write(t, u) /\ UNCHANGED process
    \/ \E t \in Tasks : Reap(t) /\ UNCHANGED process

SpecPool == Init /\ [][NextPool]_vars

\* the coroutines of the job next to a scheduler that is started
NextTicks ==
    \/ NextPool
    \/ start /\ UNCHANGED process

SpecTicks == Init /\ [][NextTicks]_vars

\* one coroutine of the job at a time, with every outcome of the fetch and of
\* the upload
NextJob ==
    \/ Advance /\ UNCHANGED process
    \/ \E f \in Feeds :
          /\ calls < MaxTicks
          /\ \A t \in Tasks : tasks[t].pc = "idle"
          /\ fetch_job(f)
          /\ UNCHANGED process
    \/ \E t \in Tasks : Acquire(t) /\ UNCHANGED process
    \/ \E t \in Tasks, r \in HttpOutcomes : Attempt(t, r) /\ UNCHANGED process
    \/ \E t \in Tasks, u \in UploadOutcomes : write(t, u) /\ UNCHANGED process
    \/ \E t \in Tasks : Reap(t) /\ UNCHANGED process

SpecJob == Init /\ [][NextJob]_vars

\* ----------------------------------------------------- secrets.py, config.py

\* get_secret: "if cache_key in _secret_cache", under the lock
CacheHit(cache, name) == name \in cache

\* resolve_auth_config(feed.auth) up to its first suspension: get_secret looks
\* the key up under the lock (never contended: no await while it is held); on a
\* hit the value is returned and resolved_value set, on a miss the lock is
\* released and the request to Secret Manager is sent and awaited
resolve_auth_config(f) ==
    /\ auth[f] # "none"
    /\ resolver[f] = "idle"
    /\ IF CacheHit(secret_cache, auth[f])
       THEN /\ resolver' = [resolver EXCEPT ![f] = "done"]
            /\ resolved' = [resolved EXCEPT ![f] = TRUE]
            /\ UNCHANGED store_reads
       ELSE /\ resolver' = [resolver EXCEPT ![f] = "awaiting"]
            /\ store_reads' = [store_reads EXCEPT ![auth[f]] = @ + 1]
            /\ UNCHANGED resolved
    /\ UNCHANGED <<auth, gcp_project_id, secret_cache>>

\* the answer of Secret Manager arrives: the value is cached and returned and
\* resolved_value set, or the failure leaves get_secret as SecretManagerError
access_secret_version(f, ok) ==
    /\ resolver[f] = "awaiting"
    /\ IF ok
       THEN /\ secret_cache' = secret_cache \cup {auth[f]}
            /\ resolver' = [resolver EXCEPT ![f] = "done"]
            /\ resolved' = [resolved EXCEPT ![f] = TRUE]
       ELSE /\ resolver' = [resolver EXCEPT ![f] = "failed"]
            /\ UNCHANGED <<secret_cache, resolved>>
    /\ UNCHANGED <<auth, gcp_project_id, store_reads>>

\* resolve_feed_secrets: one resolve_auth_config per feed with auth, all handed
\* to asyncio.gather, which runs each up to its first suspension before any
\* answer can arrive
resolve_feed_secrets ==
    LET withAuth == {f \in Feeds : auth[f] # "none"}
        hit(f) == CacheHit(secret_cache, auth[f])
    IN  /\ \A f \in Feeds : resolver[f] = "idle"
        /\ withAuth # {}
        /\ resolver' = [f \in Feeds |->
               IF f \notin withAuth THEN resolver[f]
               ELSE IF hit(f) THEN "done" ELSE "awaiting"]
        /\ resolved' = [f \in Feeds |-> resolved[f] \/ (f \in withAuth /\ hit(f))]
        /\ store_reads' = [s \in Secrets |->
               store_reads[s] + Cardinality({f \in withAuth : auth[f] = s /\ ~hit(f)})]
        /\ UNCHANGED <<auth, gcp_project_id, secret_cache>>

\* clear_cache()
clear_cache ==
    /\ secret_cache # {}
    /\ secret_cache' = {}
    /\ store_reads' = [s \in Secrets |-> 0]
    /\ UNCHANGED <<auth, gcp_project_id, resolver, resolved>>

\* any configuration of auth over the feeds, a project id given
InitSecrets ==
    /\ InitJob
    /\ auth \in [Feeds -> Secrets \cup {"none"}]
    /\ gcp_project_id = TRUE
    /\ InitSecretState
    /\ InitServices
    /\ InitShards
    /\ InitProbes
    /\ InitExtraction
    /\ InitCompaction
    /\ InitCodec
    /\ InitCatalog
    /\ InitClients

\* callers of resolve_auth_config and resolve_feed_secrets in one process
NextSecrets ==
    \/ \E f \in Feeds : resolve_auth_config(f) /\ UNCHANGED <<job, services, shards, probes, pipeline>>
    \/ \E f \in Feeds, ok \in BOOLEAN :
          access_secret_version(f, ok) /\ UNCHANGED <<job, services, shards, probes, pipeline>>
    \/ resolve_feed_secrets /\ UNCHANGED <<job, services, shards, probes, pipeline>>
    \/ clear_cache /\ UNCHANGED <<job, services, shards, probes, pipeline>>

SpecSecrets == InitSecrets /\ [][NextSecrets]_vars

\* ------------------------------------------------- scheduler.py, sharding

\* the shard indices Settings accepts for n_shards shards
\* (shard_index >= 0 and shard_index < total_shards)
ShardIndices == 0..(n_shards - 1)

\* FeedScheduler.start of the process with shard index i, at feed f of its
\* list comprehension: the answer of should_handle_feed is what decides
\* whether f becomes one of the active feeds of that process
filter_feed(i, f) ==
    /\ i \in ShardIndices
    /\ answers' = answers \cup {<<i, f, should_handle_feed(f, i, n_shards)>>}
    /\ UNCHANGED n_shards

\* a deployment of 1..MaxShards processes over the same feed list
InitShard ==
    /\ InitJob
    /\ auth = [f \in Feeds |-> "none"]
    /\ gcp_project_id = FALSE
    /\ InitSecretState
    /\ InitServices
    /\ n_shards \in 1..MaxShards
    /\ answers = {}
    /\ InitProbes
    /\ InitExtraction
    /\ InitCompaction
    /\ InitCodec
    /\ InitCatalog
    /\ InitClients

\* the processes filter their feed lists in any order, any number of times
NextShard ==
    \E i \in 0..(MaxShards - 1), f \in Feeds :
        filter_feed(i, f) /\ UNCHANGED <<job, secrets, services, probes, pipeline>>

SpecShard == InitShard /\ [][NextShard]_vars

\* ------------------------------------------------------------ __main__.run

\* a gather that collects exceptions instead of raising the first
gather_return_exceptions(states) ==
    IF "awaiting" \in states THEN "pending" ELSE "ok"

\* await asyncio.gather(*tasks): the first exception of a task is raised to
\* the awaiter at once; otherwise gather returns when every task has returned
gather(states) ==
    IF "failed" \in states THEN "raise"
    ELSE IF "awaiting" \in states THEN "pending"
    ELSE "ok"

\* the states of the coroutines resolve_feed_secrets gathered
Gathered == {resolver[f] : f \in {g \in Feeds : auth[g] # "none"}}

\* run() from the loaded configuration to the call of resolve_feed_secrets:
\* nothing to resolve without feeds with auth, ValueError without a project id
run_resolve ==
    /\ run_pc = "init"
    /\ IF \A f \in Feeds : auth[f] = "none"
       THEN /\ run_pc' = "ready"
            /\ UNCHANGED secrets
       ELSE IF ~gcp_project_id
       THEN /\ run_pc' = "raised"
            /\ UNCHANGED secrets
       ELSE /\ run_pc' = "resolving"
            /\ resolve_feed_secrets
    /\ UNCHANGED <<job, health, http_client, storage_writer, shutdown_event, shards, probes, pipeline>>

\* an answer of Secret Manager arrives while run() awaits the resolution
run_secret_answer(f, ok) ==
    /\ run_pc = "resolving"
    /\ gather(Gathered) = "pending"
    /\ access_secret_version(f, ok)
    /\ UNCHANGED <<job, services, shards, probes, pipeline>>

\* await resolve_feed_secrets(...) ends: run() goes on, or the
\* SecretManagerError leaves run(), which is before its try block
run_resolved ==
    /\ run_pc = "resolving"
    /\ gather(Gathered) # "pending"
    /\ run_pc' = IF gather(Gathered) = "ok" THEN "ready" ELSE "raised"
    /\ UNCHANGED <<job, secrets, health, http_client, storage_writer, shutdown_event,
                   shards, probes, pipeline>>

\* the HTTP client, the storage writer, the semaphore, the job, the scheduler
\* and the health server are created and the signal handlers installed
run_create ==
    /\ run_pc = "ready"
    /\ run_pc' = "created"
    /\ http_client' = "open"
    /\ storage_writer' = "open"
    /\ UNCHANGED <<job, secrets, health, shutdown_event, shards, probes, pipeline>>

\* SIGTERM or SIGINT: handle_shutdown sets the event
handle_shutdown ==
    /\ run_pc \in {"created", "health_up", "waiting"}
    /\ ~shutdown_event
    /\ shutdown_event' = TRUE
    /\ UNCHANGED <<job, secrets, run_pc, health, http_client, storage_writer, shards, probes, pipeline>>

\* await health_server.start(): the server listens, or the exception (the
\* port is taken) takes run() to its finally block
run_health_start(ok) ==
    /\ run_pc = "created"
    /\ health' = IF ok THEN "started" ELSE "failed"
    /\ run_pc' = IF ok THEN "health_up" ELSE "finally"
    /\ UNCHANGED <<job, secrets, http_client, storage_writer, shutdown_event, shards, probes, pipeline>>

\* await scheduler.start()
run_scheduler_start ==
    /\ run_pc = "health_up"
    /\ start
    /\ run_pc' = "waiting"
    /\ UNCHANGED <<secrets, health, http_client, storage_writer, shutdown_event, shards, probes, pipeline>>

\* a timer of the scheduler fires while run() waits or shuts down
run_timer(f) ==
    /\ run_pc \in {"waiting", "finally"}
    /\ execute_scheduled_fetch(f)
    /\ UNCHANGED process

\* a readiness answer that does not look at the scheduler
handle_ready_unconditional(has_scheduler) == <<200, "none">>

\* HealthServer._handle_ready of a server with or without a scheduler: 503
\* with the reason when there is a scheduler and it is not running
handle_ready(has_scheduler) ==
    IF has_scheduler /\ ~is_running
    THEN <<503, "scheduler_not_running">>
    ELSE <<200, "none">>

\* a client GETs /ready of the health server run() started, which was
\* created with scheduler=scheduler
run_get_ready ==
    /\ health = "started"
    /\ ready_responses' = ready_responses \cup {<<run_pc, is_running, handle_ready(TRUE)>>}
    /\ UNCHANGED <<job, secrets, services, shards, pipeline>>

\* await shutdown_event.wait() returns
run_wait ==
    /\ run_pc = "waiting"
    /\ shutdown_event
    /\ run_pc' = "finally"
    /\ UNCHANGED <<job, secrets, health, http_client, storage_writer, shutdown_event,
                   shards, probes, pipeline>>

\* finally: await scheduler.stop(wait=True), which returns at once when the
\* scheduler was never started
run_scheduler_stop ==
    /\ run_pc = "finally"
    /\ stop_begin
    /\ run_pc' = IF sched = "started" THEN "stopping" ELSE "scheduler_stopped"
    /\ UNCHANGED <<secrets, health, http_client, storage_writer, shutdown_event, shards, probes, pipeline>>

\* scheduler.stop(wait=True) returns, or an await inside it raises and the
\* exception leaves the finally block and run()
run_scheduler_stopped(ok) ==
    /\ run_pc = "stopping"
    /\ IF ok
       THEN /\ stop_end
            /\ run_pc' = "scheduler_stopped"
       ELSE /\ run_pc' = "failed"
            /\ UNCHANGED job
    /\ UNCHANGED <<secrets, health, http_client, storage_writer, shutdown_event, shards, probes, pipeline>>

\* await health_server.stop() returns, or it raises and the exception leaves
\* the finally block and run()
run_health_stop(ok) ==
    /\ run_pc = "scheduler_stopped"
    /\ health' = IF ok THEN "stopped" ELSE health
    /\ run_pc' = IF ok THEN "health_stopped" ELSE "failed"
    /\ UNCHANGED <<job, secrets, http_client, storage_writer, shutdown_event, shards, probes, pipeline>>

\* await storage_writer.close() returns, or it raises and the exception leaves
\* the finally block and run()
run_storage_close(ok) ==
    /\ run_pc = "health_stopped"
    /\ storage_writer' = IF ok THEN "closed" ELSE storage_writer
    /\ run_pc' = IF ok THEN "storage_closed" ELSE "failed"
    /\ UNCHANGED <<job, secrets, health, http_client, shutdown_event, shards, probes, pipeline>>

\* await http_client.aclose(); run() returns
run_http_close ==
    /\ run_pc = "storage_closed"
    /\ http_client' = "closed"
    /\ run_pc' = "done"
    /\ UNCHANGED <<job, secrets, health, storage_writer, shutdown_event, shards, probes, pipeline>>

\* a process entering run() with any configuration of auth, with or without
\* a project id
InitRun ==
    /\ InitJob
    /\ auth \in [Feeds -> Secrets \cup {"none"}]
    /\ gcp_project_id \in BOOLEAN
    /\ InitSecretState
    /\ InitServices
    /\ InitShards
    /\ InitProbes
    /\ InitExtraction
    /\ InitCompaction
    /\ InitCodec
    /\ InitCatalog
    /\ InitClients

\* one process running run()
NextRun ==
    \/ run_resolve
    \/ \E f \in Feeds, ok \in BOOLEAN : run_secret_answer(f, ok)
    \/ run_resolved
    \/ run_create
    \/ handle_shutdown
    \/ \E ok \in BOOLEAN : run_health_start(ok)
    \/ run_scheduler_start
    \/ \E f \in Feeds : run_timer(f)
    \/ run_get_ready
    \/ run_wait
    \/ run_scheduler_stop
    \/ \E ok \in BOOLEAN : run_scheduler_stopped(ok)
    \/ \E ok \in BOOLEAN : run_health_stop(ok)
    \/ \E ok \in BOOLEAN : run_storage_close(ok)
    \/ run_http_close

SpecRun == InitRun /\ [][NextRun]_vars

\* ------------------------------------------- dagster_pipeline, compaction.py

FeedTypes == {"vehicle_positions", "trip_updates", "service_alerts"}

\* a FeedEntity: which of its fields vehicle, trip_update and alert are set,
\* and how many stop_time_update children its trip_update and informed_entity
\* children its alert have
Entities ==
    [fields : SUBSET {"vehicle", "trip_update", "alert"}, children : 0..MaxChildren]

\* feed.entity of the FeedMessages with at most MaxEntities entities
FeedMessages ==
    UNION {[1..n -> Entities] : n \in 0..MaxEntities}

\* rows for the children only, none for a trip_update or an alert without one
EntityRowsChildrenOnly(field, entity, i) ==
    IF field \notin entity.fields THEN << >>
    ELSE IF field = "vehicle" THEN << <<i, 0>> >>
    ELSE [j \in 1..entity.children |-> <<i, j>>]

\* the rows one entity yields for the field an extractor looks at: none without
\* that field, one for a vehicle, one per child for a trip_update or an alert
\* and the base record alone when there is no child
EntityRows(field, entity, i) ==
    IF field \notin entity.fields THEN << >>
    ELSE IF field = "vehicle" THEN << <<i, 0>> >>
    ELSE IF entity.children > 0 THEN [j \in 1..entity.children |-> <<i, j>>]
    ELSE << <<i, 0>> >>

RECURSIVE ExtractFrom(_, _, _)
\* "for entity in feed.entity: if entity.HasField(field): yield ..." from entity i on
ExtractFrom(field, feed, i) ==
    IF i > Len(feed) THEN << >>
    ELSE EntityRows(field, feed[i], i) \o ExtractFrom(field, feed, i + 1)

extract_vehicle_positions(feed) == ExtractFrom("vehicle", feed, 1)

extract_trip_updates(feed) == ExtractFrom("trip_update", feed, 1)

extract_service_alerts(feed) == ExtractFrom("alert", feed, 1)

\* the extractor each asset hands to compact_single_feed
Extractor(ft, feed) ==
    CASE ft = "vehicle_positions" -> extract_vehicle_positions(feed)
      [] ft = "trip_updates" -> extract_trip_updates(feed)
      [] OTHER -> extract_service_alerts(feed)

\* records = list(extractor(feed, pb_file, feed_url))
extract(ft) ==
    /\ extractor = "none"
    /\ extractor' = ft
    /\ records' = Extractor(ft, feed_message)
    /\ UNCHANGED feed_message

\* any FeedMessage within the bounds
InitExtract ==
    /\ InitJob
    /\ max_concurrent = 1
    /\ max_attempts = [f \in Feeds |-> 1]
    /\ auth = [f \in Feeds |-> "none"]
    /\ gcp_project_id = FALSE
    /\ InitSecretState
    /\ InitServices
    /\ InitShards
    /\ InitProbes
    /\ feed_message \in FeedMessages
    /\ extractor = "none"
    /\ records = << >>
    /\ InitCompaction
    /\ InitCodec
    /\ InitCatalog
    /\ InitClients

NextExtract ==
    \E ft \in FeedTypes :
        extract(ft)
            /\ UNCHANGED <<job, secrets, services, shards, probes, clients, compaction, codec, catalog>>

SpecExtract == InitExtract /\ [][NextExtract]_vars

\* FeedMessages the partitions are made of: an empty feed, one vehicle, a
\* trip update with two stop time updates next to an alert without informed
\* entity
SampleFeeds ==
    { << >>,
      << [fields |-> {"vehicle"}, children |-> 0] >>,
      << [fields |-> {"trip_update"}, children |-> 2],
         [fields |-> {"alert"}, children |-> 0] >> }

\* what happens to a .pb object in the loop: it is downloaded, parsed and
\* extracted ("ok"), parse_protobuf or the batch raises DecodeError or
\* ValueError, download_as_bytes raises, or another exception is raised
\* inside the inner try
PbObjects ==
    [status : {"ok"}, feed : SampleFeeds]
        \cup [status : {"DecodeError", "ValueError", "download_error", "TypeError"},
              feed : {<< >>}]

\* the objects of a partition with n objects: each has its name, which is
\* made of fixed-width fields of the fetch time (hour=..., then the
\* millisecond), so names compare as strings the way the numbers here do
Blobs(n) ==
    {[status |-> o.status, feed |-> o.feed, name |-> k] : o \in PbObjects, k \in 1..n}

\* what bucket.list_blobs can yield for partitions of at most MaxFiles objects:
\* distinct names in any order
Listings ==
    UNION {{l \in [1..n -> Blobs(n)] : \A i, j \in 1..n : l[i].name = l[j].name => i = j} :
              n \in 0..MaxFiles}

\* a listing returned in the order the bucket gave it
list_pb_files_unsorted(l) == l

\* list_pb_files: sorted(pb_files)
list_pb_files(l) ==
    [i \in 1..Len(l) |->
        CHOOSE o \in {l[k] : k \in 1..Len(l)} :
            Cardinality({k \in 1..Len(l) : l[k].name < o.name}) = i - 1]

\* records = list(extractor(feed, pb_file, feed_url)): every record carries
\* source_file = pb_file
Records(ft, file) ==
    [k \in 1..Len(Extractor(ft, file.feed)) |->
        <<file.name>> \o Extractor(ft, file.feed)[k]]

\* an inner try without an except clause
CaughtNothing(status) == FALSE

\* except (DecodeError, ValueError): log and continue
Caught(status) == status \in {"DecodeError", "ValueError"}

\* a loop that leaves before the last file
LoopLeftEarly(pos, files) == pos >= Len(files)

\* the for loop over pb_files is exhausted
LoopDone(pos, files) == pos > Len(files)

\* the partition compacted, fixed by the MultiPartitionKey
partition_date == "2024-01-15"

feed_url_encoded == "aHR0cHM6Ly9leGFtcGxlLmNvbS8wLnBi"

\* an output name that keeps the hour directory of the inputs
output_path_with_hour(ft) ==
    <<ft, partition_date, "hour", feed_url_encoded, "data.parquet">>

\* f"{feed_type}/date={date}/base64url={feed_url_encoded}/data.parquet"
output_path(ft) == <<ft, partition_date, feed_url_encoded, "data.parquet">>

\* compact_single_feed up to the loop: without .pb files the Output is
\* returned at once
compact_list ==
    /\ compact_pc = "idle"
    /\ pb_files' = list_pb_files(listed)
    /\ IF pb_files' = << >>
       THEN /\ output' = <<0, 0>>
            /\ compact_pc' = "done"
       ELSE /\ compact_pc' = "loop"
            /\ UNCHANGED output
    /\ UNCHANGED <<asset_type, listed, file_pos, writer, buffer, records_count,
                   parquet_bucket, uploads>>

\* one iteration of the loop over pb_files
compact_file ==
    /\ compact_pc = "loop"
    /\ ~LoopDone(file_pos, pb_files)
    /\ LET file == pb_files[file_pos]
           rows == Records(asset_type, file)
       IN  IF file.status = "ok" /\ rows # << >>
           THEN \* the writer is created with the first batch
                /\ writer' = "open"
                /\ buffer' = buffer \o rows
                /\ records_count' = records_count + Len(rows)
                /\ file_pos' = file_pos + 1
                /\ UNCHANGED compact_pc
           ELSE IF file.status = "ok" \/ Caught(file.status)
           THEN \* "if not records: continue", and the except clause
                /\ file_pos' = file_pos + 1
                /\ UNCHANGED <<compact_pc, writer, buffer, records_count>>
           ELSE \* the exception leaves the loop through the finally clause
                /\ writer' = IF writer = "none" THEN "none" ELSE "closed"
                /\ compact_pc' = "raised"
                /\ UNCHANGED <<file_pos, buffer, records_count>>
    /\ UNCHANGED <<asset_type, listed, pb_files, parquet_bucket, uploads, output>>

\* the loop ends: finally closes the writer; without a writer the Output is
\* returned without an upload
compact_close ==
    /\ compact_pc = "loop"
    /\ LoopDone(file_pos, pb_files)
    /\ IF writer = "none"
       THEN /\ output' = <<Len(pb_files), 0>>
            /\ compact_pc' = "done"
            /\ UNCHANGED writer
       ELSE /\ writer' = "closed"
            /\ compact_pc' = "upload"
            /\ UNCHANGED output
    /\ UNCHANGED <<asset_type, listed, pb_files, file_pos, buffer, records_count,
                   parquet_bucket, uploads>>

\* output_blob.upload_from_file(buffer): the object is stored, or the call
\* raises and nothing is stored
compact_upload(ok) ==
    /\ compact_pc = "upload"
    /\ uploads' = uploads + 1
    /\ IF ok
       THEN /\ parquet_bucket' =
                  {o \in parquet_bucket : o[1] # output_path(asset_type)}
                      \cup {<<output_path(asset_type), buffer>>}
            /\ output' = <<Len(pb_files), records_count>>
            /\ compact_pc' = "done"
       ELSE /\ compact_pc' = "raised"
            /\ UNCHANGED <<parquet_bucket, output>>
    /\ UNCHANGED <<asset_type, listed, pb_files, file_pos, writer, buffer, records_count>>

\* one of the three assets on a partition of at most MaxFiles objects, the
\* parquet bucket without an object of that partition
InitCompact ==
    /\ InitJob
    /\ max_concurrent = 1
    /\ max_attempts = [f \in Feeds |-> 1]
    /\ auth = [f \in Feeds |-> "none"]
    /\ gcp_project_id = FALSE
    /\ InitSecretState
    /\ InitServices
    /\ InitShards
    /\ InitProbes
    /\ InitExtraction
    /\ asset_type \in FeedTypes
    /\ listed \in Listings
    /\ pb_files = << >>
    /\ file_pos = 1
    /\ compact_pc = "idle"
    /\ writer = "none"
    /\ buffer = << >>
    /\ records_count = 0
    /\ parquet_bucket = {}
    /\ uploads = 0
    /\ output = << >>
    /\ InitCodec
    /\ InitCatalog
    /\ InitClients

NextCompact ==
    \/ compact_list /\ UNCHANGED <<job, secrets, services, shards, probes, clients, extraction, codec, catalog>>
    \/ compact_file /\ UNCHANGED <<job, secrets, services, shards, probes, clients, extraction, codec, catalog>>
    \/ compact_close /\ UNCHANGED <<job, secrets, services, shards, probes, clients, extraction, codec, catalog>>
    \/ \E ok \in BOOLEAN :
          compact_upload(ok)
              /\ UNCHANGED <<job, secrets, services, shards, probes, clients, extraction, codec, catalog>>

SpecCompact == InitCompact /\ [][NextCompact]_vars

\* ------------------------------------ compaction.py, partition keys of URLs

\* "http://" and "https://", character by character
HTTP == <<"h", "t", "t", "p", ":", "/", "/">>

HTTPS == <<"h", "t", "t", "p", "s", ":", "/", "/">>

\* HTTP_FEED_PREFIX
HTTP_FEED_PREFIX == <<"~">>

\* str.startswith
StartsWith(str, prefix) ==
    Len(str) >= Len(prefix) /\ SubSeq(str, 1, Len(prefix)) = prefix

\* url[n:]
From(str, n) == SubSeq(str, n + 1, Len(str))

\* url_to_partition_key: "~" and the remainder for http://, the remainder
\* alone for https://, anything else as it is
url_to_partition_key(u) ==
    IF StartsWith(u, HTTP) THEN HTTP_FEED_PREFIX \o From(u, Len(HTTP))
    ELSE IF StartsWith(u, HTTPS) THEN From(u, Len(HTTPS))
    ELSE u

\* partition_key_to_url: http:// for a key that starts with "~", else https://
partition_key_to_url(key) ==
    IF StartsWith(key, HTTP_FEED_PREFIX) THEN HTTP \o From(key, Len(HTTP_FEED_PREFIX))
    ELSE HTTPS \o key

\* characters of the part of a URL after its scheme: a letter, an unreserved
\* mark, the userinfo delimiter and the path delimiter
UrlChars == {"a", "~", "@", "/"}

\* what follows "//" in a valid URL: an authority, made of an optional
\* non-empty userinfo of unreserved characters with "@" and a non-empty host of
\* letters, and then an optional path starting with "/"
ValidRemainder(rest) ==
    LET slashes == {i \in 1..Len(rest) : rest[i] = "/"}
        stop == IF slashes = {} THEN Len(rest) + 1
                ELSE CHOOSE i \in slashes : \A j \in slashes : i <= j
        authority == SubSeq(rest, 1, stop - 1)
        ats == {i \in 1..Len(authority) : authority[i] = "@"}
    IN  IF ats = {}
        THEN authority # << >> /\ \A i \in 1..Len(authority) : authority[i] = "a"
        ELSE /\ Cardinality(ats) = 1
             /\ \A k \in ats :
                    /\ k > 1
                    /\ k < Len(authority)
                    /\ \A i \in 1..(k - 1) : authority[i] \in {"a", "~"}
                    /\ \A i \in (k + 1)..Len(authority) : authority[i] = "a"

\* the valid http:// and https:// URLs whose remainder has at most MaxUrlLen
\* characters
ValidUrls ==
    {scheme \o rest : scheme \in {HTTP, HTTPS},
                      rest \in {r \in UNION {[1..n -> UrlChars] : n \in 1..MaxUrlLen} :
                                    ValidRemainder(r)}}

\* the sensor takes a discovered URL to its partition key
to_partition_key ==
    /\ codec_pc = "url"
    /\ partition_key' = url_to_partition_key(feed_url)
    /\ codec_pc' = "key"
    /\ UNCHANGED <<feed_url, key_url>>

\* compact_single_feed takes the partition key back to the URL
to_url ==
    /\ codec_pc = "key"
    /\ key_url' = partition_key_to_url(partition_key)
    /\ codec_pc' = "back"
    /\ UNCHANGED <<feed_url, partition_key>>

\* any valid URL within the bound
InitCodecRun ==
    /\ InitJob
    /\ max_concurrent = 1
    /\ max_attempts = [f \in Feeds |-> 1]
    /\ auth = [f \in Feeds |-> "none"]
    /\ gcp_project_id = FALSE
    /\ InitSecretState
    /\ InitServices
    /\ InitShards
    /\ InitProbes
    /\ InitExtraction
    /\ InitCompaction
    /\ feed_url \in ValidUrls
    /\ partition_key = << >>
    /\ key_url = << >>
    /\ codec_pc = "url"
    /\ InitCatalog
    /\ InitClients

NextCodec ==
    \/ to_partition_key
          /\ UNCHANGED <<job, secrets, services, shards, probes, clients, extraction, compaction,
                         catalog>>
    \/ to_url
          /\ UNCHANGED <<job, secrets, services, shards, probes, clients, extraction, compaction,
                         catalog>>

SpecCodec == InitCodecRun /\ [][NextCodec]_vars

\* ------------------------------------------------- config.py, feed catalog

\* feed types used in the catalogs
CatalogFeedTypes == {"vehicle_positions", "trip_updates"}

\* ids of agencies and systems, matching ^[a-z0-9-]+$
AgencyIds == {"a", "a-b"}

SystemIds == {"b"}

\* lists of at most n feeds, a feed given by its feed_type
FeedLists(n) == UNION {[1..k -> CatalogFeedTypes] : k \in 0..n}

\* SystemConfig objects as the file may give them
Systems == [id : SystemIds, feeds : FeedLists(1)]

\* AgencyConfig objects as the file may give them: with direct feeds, with one
\* system, with both or with neither
Agencies ==
    [id : AgencyIds,
     feeds : FeedLists(MaxCatalogFeeds),
     systems : {<< >>} \cup {<<system>> : system \in Systems}]

\* agencies files with at most two agencies
AgenciesFiles ==
    {<< >>} \cup {<<a>> : a \in Agencies} \cup {<<a, b>> : a, b \in Agencies}

\* SystemConfig.validate_has_feeds
validate_has_feeds(system) == system.feeds # << >>

\* AgencyConfig.validate_feeds_or_systems: feeds or systems, not both
validate_feeds_or_systems(agency) ==
    LET has_feeds == agency.feeds # << >>
        has_systems == agency.systems # << >>
    IN  ~(has_feeds /\ has_systems) /\ (has_feeds \/ has_systems)

\* AgenciesFileConfig.model_validate
model_validate(file) ==
    \A i \in 1..Len(file) :
        /\ validate_feeds_or_systems(file[i])
        /\ \A j \in 1..Len(file[i].systems) : validate_has_feeds(file[i].systems[j])

\* feed_type.value.replace("_", "-")
Hyphenated(ft) ==
    CASE ft = "vehicle_positions" -> "vehicle-positions"
      [] ft = "trip_updates" -> "trip-updates"
      [] OTHER -> "service-alerts"

\* generate_feed_id: {agency_id}[-{system_id}]-{feed_type}; "" stands for the
\* system_id None
generate_feed_id(agency_id, system_id, ft) ==
    IF system_id # ""
    THEN agency_id \o "-" \o system_id \o "-" \o Hyphenated(ft)
    ELSE agency_id \o "-" \o Hyphenated(ft)

\* _flatten_feed, as far as the identity of the feed goes
flatten_feed(ft, agency, system_id) ==
    [id |-> generate_feed_id(agency.id, system_id, ft),
     feed_type |-> ft,
     agency_id |-> agency.id,
     system_id |-> system_id]

\* the feeds of one agency: those of its systems when it has systems, else
\* its direct feeds
AgencyFeeds(agency) ==
    IF agency.systems # << >>
    THEN [k \in 1..Len(agency.systems[1].feeds) |->
              flatten_feed(agency.systems[1].feeds[k], agency, agency.systems[1].id)]
    ELSE [k \in 1..Len(agency.feeds) |-> flatten_feed(agency.feeds[k], agency, "")]

RECURSIVE FlattenFrom(_, _)
\* flatten_agencies: "for agency in config.agencies" from agency i on
FlattenFrom(file, i) ==
    IF i > Len(file) THEN << >>
    ELSE AgencyFeeds(file[i]) \o FlattenFrom(file, i + 1)

\* load_agencies_file: the file is validated against AgenciesFileConfig
load_agencies_file ==
    /\ load_pc = "file"
    /\ load_pc' = IF model_validate(agencies_config) THEN "validated" ELSE "invalid"
    /\ UNCHANGED <<agencies_config, flat_feeds>>

\* feeds = flatten_agencies(agencies_config)
flatten_agencies ==
    /\ load_pc = "validated"
    /\ flat_feeds' = FlattenFrom(agencies_config, 1)
    /\ load_pc' = "flattened"
    /\ UNCHANGED agencies_config

\* any agencies file within the bounds
InitCatalogRun ==
    /\ InitJob
    /\ max_concurrent = 1
    /\ max_attempts = [f \in Feeds |-> 1]
    /\ auth = [f \in Feeds |-> "none"]
    /\ gcp_project_id = FALSE
    /\ InitSecretState
    /\ InitServices
    /\ InitShards
    /\ InitProbes
    /\ InitExtraction
    /\ InitCompaction
    /\ InitCodec
    /\ InitClients
    /\ agencies_config \in AgenciesFiles
    /\ load_pc = "file"
    /\ flat_feeds = << >>

NextCatalog ==
    \/ load_agencies_file
          /\ UNCHANGED <<job, secrets, services, shards, probes, clients, extraction, compaction,
                         codec>>
    \/ flatten_agencies
          /\ UNCHANGED <<job, secrets, services, shards, probes, clients, extraction, compaction,
                         codec>>

SpecCatalog == InitCatalogRun /\ [][NextCatalog]_vars

\* ------------------------------------------- fetcher.py, the request query

\* names and values of query parameters; auth_key is feed.auth.key and
\* resolved_value the credential
ParamNames == {"a", "api_key"}

ParamValues == {"", "1", "2"}

auth_key == "api_key"

resolved_value == "secret"

\* the queries a configured URL can carry
Queries == UNION {[1..n -> ParamNames \X ParamValues] : n \in 0..MaxParams}

\* the values of name in query q, in their order
RECURSIVE ValuesOf(_, _, _)

ValuesOf(q, name, i) ==
    IF i > Len(q) THEN << >>
    ELSE IF q[i][1] = name /\ q[i][2] # ""
    THEN <<q[i][2]>> \o ValuesOf(q, name, i + 1)
    ELSE ValuesOf(q, name, i + 1)

\* urllib.parse.parse_qs(query) with its defaults (keep_blank_values=False):
\* per name the list of its values, pairs with an empty value left out
parse_qs(q) ==
    [name \in {q[i][1] : i \in {j \in 1..Len(q) : q[j][2] # ""}} |->
        ValuesOf(q, name, 1)]

\* existing_params = {k: v[0] for k, v in qs_dict.items()}
existing_params(q) ==
    IF q = << >> THEN << >>
    ELSE [name \in DOMAIN parse_qs(q) |-> parse_qs(q)[name][1]]

\* params: existing_params with, for query auth, params[auth.key] = resolved_value
params(q, type) ==
    IF type = "query"
    THEN [name \in DOMAIN existing_params(q) \cup {auth_key} |->
             IF name = auth_key THEN resolved_value ELSE existing_params(q)[name]]
    ELSE existing_params(q)

\* _do_fetch up to client.get(clean_url, params=params if params else None):
\* the request carries one pair per entry of params
client_get ==
    /\ request_pc = "built"
    /\ request_pc' = "sent"
    /\ request_query' =
           SetToBag({<<name, params(url_query, auth_type)[name]>> :
                        name \in DOMAIN params(url_query, auth_type)})
    /\ UNCHANGED <<url_query, auth_type>>

\* a feed with any configured query and any auth placement
InitRequestRun ==
    /\ InitJob
    /\ max_concurrent = 1
    /\ max_attempts = [f \in Feeds |-> 1]
    /\ auth = [f \in Feeds |-> "none"]
    /\ gcp_project_id = FALSE
    /\ InitSecretState
    /\ InitServices
    /\ InitShards
    /\ InitProbes
    /\ InitExtraction
    /\ InitCompaction
    /\ InitCodec
    /\ InitCatalog
    /\ url_query \in Queries
    /\ auth_type \in {"none", "header", "query"}
    /\ request_query = EmptyBag
    /\ request_pc = "built"
    /\ InitBlobstore
    /\ InitSafe
    /\ InitTimers

NextRequest ==
    client_get
        /\ UNCHANGED <<job, secrets, services, shards, probes, extraction,
                       compaction, codec, catalog, blobstore, safe, timers>>

SpecRequest == InitRequestRun /\ [][NextRequest]_vars

\* ------------------------------------------- storage.py, the shared handle

\* a _get_storage that makes a new Storage at every call
create_always(current, made) == made + 1

\* _get_storage under the lock: the Storage there is, or a new one when
\* self._storage is None
get_or_create(current, made) == IF current = 0 THEN made + 1 ELSE current

\* write: storage = await self._get_storage(). The lock is free whenever a
\* coroutine asks for it (no await while it is held), so the call runs
\* without a suspension
get_storage(w) ==
    /\ writers[w].pc = "idle"
    /\ storage' = get_or_create(storage, handles)
    /\ handles' = IF storage' > handles THEN storage' ELSE handles
    /\ writers' = [writers EXCEPT ![w] = [pc |-> "got", handle |-> storage']]
    /\ UNCHANGED <<closes, closing>>

\* write after it has its handle: the path is generated and the uploads are
\* awaited on the handle, or the exception of generate_storage_path leaves
\* write before any upload
storage_write(w) ==
    /\ writers[w].pc = "got"
    /\ writers' = [writers EXCEPT ![w].pc =
           IF generate_storage_path("feed-0", 0, "pb") = AttributeError
           THEN "raised" ELSE "returned"]
    /\ UNCHANGED <<storage, handles, closes, closing>>

\* close() up to await self._storage.close(), or all of it when there is no
\* handle
close_begin ==
    /\ closes < MaxCloses
    /\ closing = 0
    /\ closes' = closes + 1
    /\ closing' = storage
    /\ UNCHANGED <<storage, handles, writers>>

\* close() after the await: self._storage = None
close_end ==
    /\ closing # 0
    /\ closing' = 0
    /\ storage' = 0
    /\ UNCHANGED <<handles, writers, closes>>

\* one StorageWriter shared by the coroutines of the job
InitBlobstoreRun ==
    /\ InitJob
    /\ max_concurrent = 1
    /\ max_attempts = [f \in Feeds |-> 1]
    /\ auth = [f \in Feeds |-> "none"]
    /\ gcp_project_id = FALSE
    /\ InitSecretState
    /\ InitServices
    /\ InitShards
    /\ InitProbes
    /\ InitExtraction
    /\ InitCompaction
    /\ InitCodec
    /\ InitCatalog
    /\ InitRequest
    /\ InitBlobstore
    /\ InitSafe
    /\ InitTimers

NextBlobstore ==
    \/ \E w \in 1..MaxWriters :
          get_storage(w)
              /\ UNCHANGED <<job, secrets, services, shards, probes, extraction,
                             compaction, codec, catalog, request, safe, timers>>
    \/ \E w \in 1..MaxWriters :
          storage_write(w)
              /\ UNCHANGED <<job, secrets, services, shards, probes, extraction,
                             compaction, codec, catalog, request, safe, timers>>
    \/ close_begin
          /\ UNCHANGED <<job, secrets, services, shards, probes, extraction,
                         compaction, codec, catalog, request, safe, timers>>
    \/ close_end
          /\ UNCHANGED <<job, secrets, services, shards, probes, extraction,
                         compaction, codec, catalog, request, safe, timers>>

SpecBlobstore == InitBlobstoreRun /\ [][NextBlobstore]_vars

\* ----------------------------------------------- fetcher.fetch_feed_safe

\* except (NonRetryableError, httpx.HTTPError, RetryError): httpx.HTTPError is
\* the base of HTTPStatusError, TransportError and TimeoutException
SafeCaught ==
    {"NonRetryableError", "HTTPStatusError", "TransportError", "TimeoutException",
     "RetryError"}

\* await fetch_feed_safe(client, feed) is called
fetch_feed_safe(f) ==
    /\ safe_pc = "idle"
    /\ safe_pc' = "fetching"
    /\ safe_feed' = f
    /\ UNCHANGED <<safe_outcomes, safe_result>>

\* one attempt of fetch_feed's retry loop inside fetch_feed_safe with outcome
\* r: the result is returned, the attempt is repeated, or the exception that
\* leaves fetch_feed is caught and None returned, or it leaves fetch_feed_safe
safe_attempt(r) ==
    LET n == Len(safe_outcomes) + 1
        exc == do_fetch(r)
    IN  /\ safe_pc = "fetching"
        /\ safe_outcomes' = Append(safe_outcomes, r)
        /\ IF exc = "ok"
           THEN safe_pc' = "returned" /\ safe_result' = "FetchResult"
           ELSE IF create_retrying(exc, n, max_attempts[safe_feed])
           THEN UNCHANGED <<safe_pc, safe_result>>
           ELSE IF exc \in SafeCaught
           THEN safe_pc' = "returned" /\ safe_result' = "None"
           ELSE safe_pc' = "raised" /\ safe_result' = exc
        /\ UNCHANGED safe_feed

\* a caller of fetch_feed_safe, for any feed and any max_attempts
InitSafeRun ==
    /\ InitJob
    /\ max_concurrent = 1
    /\ auth = [f \in Feeds |-> "none"]
    /\ gcp_project_id = FALSE
    /\ InitSecretState
    /\ InitServices
    /\ InitShards
    /\ InitProbes
    /\ InitExtraction
    /\ InitCompaction
    /\ InitCodec
    /\ InitCatalog
    /\ InitRequest
    /\ InitBlobstore
    /\ InitSafe
    /\ InitTimers

NextSafe ==
    \/ \E f \in Feeds :
          fetch_feed_safe(f)
              /\ UNCHANGED <<job, secrets, services, shards, probes, extraction,
                             compaction, codec, catalog, request, blobstore, timers>>
    \/ \E r \in HttpOutcomes :
          safe_attempt(r)
              /\ UNCHANGED <<job, secrets, services, shards, probes, extraction,
                             compaction, codec, catalog, request, blobstore, timers>>

SpecSafe == InitSafeRun /\ [][NextSafe]_vars

\* ------------------------------------- scheduler.py, start, stop and timers

\* start() on an instance whose scheduler is running: the feeds are filtered
\* and the instance registered again, and a new AsyncScheduler with new
\* schedules takes the place of the running one, which is not stopped
start_again ==
    /\ sched = "started"
    /\ starts < MaxStarts
    /\ starts' = starts + 1
    /\ feeds_by_id' = {f \in Feeds : should_handle_feed(f, 0, 1)}
    /\ registered' = TRUE
    /\ UNCHANGED <<now, config, permits, tasks, calls, metrics, blobs, sched,
                   job_errors, at_stop, ignored>>

\* start() on an instance without a scheduler
start_first ==
    /\ starts < MaxStarts
    /\ starts' = starts + 1
    /\ start
    /\ UNCHANGED ignored

\* a timer of any AsyncScheduler the instance has created calls
\* _execute_scheduled_fetch(scheduler_id, feed_id): without the instance in the
\* registry, or without the feed in its _feeds_by_id, it returns; otherwise it
\* calls scheduler._fetch_job(feed, scheduled_time)
timer_fires(f) ==
    /\ starts > 0
    /\ IF registered /\ f \in feeds_by_id
       THEN /\ Invoke(f, SchedulerCallArgs, "timer")
            /\ UNCHANGED ignored
       ELSE /\ ignored[f] < MaxIgnored
            /\ ignored' = [ignored EXCEPT ![f] = @ + 1]
            /\ UNCHANGED job
    /\ UNCHANGED starts

\* one FeedScheduler, started and stopped any number of times
InitTimersRun ==
    /\ Init
    /\ max_concurrent = 1
    /\ max_attempts = [f \in Feeds |-> 1]

NextTimers ==
    \/ start_first
          /\ UNCHANGED <<secrets, services, shards, probes, extraction, compaction,
                         codec, catalog, request, blobstore, safe>>
    \/ start_again
          /\ UNCHANGED <<secrets, services, shards, probes, extraction, compaction,
                         codec, catalog, request, blobstore, safe>>
    \/ stop_begin
          /\ UNCHANGED <<secrets, services, shards, probes, extraction, compaction,
                         codec, catalog, request, blobstore, safe, timers>>
    \/ stop_end
          /\ UNCHANGED <<secrets, services, shards, probes, extraction, compaction,
                         codec, catalog, request, blobstore, safe, timers>>
    \/ \E f \in Feeds :
          timer_fires(f)
              /\ UNCHANGED <<secrets, services, shards, probes, extraction, compaction,
                             codec, catalog, request, blobstore, safe>>

SpecTimers == InitTimersRun /\ [][NextTimers]_vars

\* ------------------------------------------------------------- properties

Running == {t \in Tasks : Holding(t)}

NonRetryableStatuses == {400, 401, 403, 404, 410}

RetryableClasses == {"HTTPStatusError", "TransportError", "TimeoutException"}

\* the error_type the interface documents for the outcome that ended a fetch
DocumentedLabel(r) ==
    CASE r.kind = "status" -> "http_" \o ToString(r.code)
      [] r.kind = "timeout" -> "timeout"
      [] r.kind = "transport" -> "transport"
      [] OTHER -> "unknown"

\* stop() has returned on a scheduler that had been started
StopReturned == sched = "none" /\ feeds_by_id # {}

\* C1: at no instant are more than max_concurrent coroutines of the job inside
\* the semaphore-guarded section (from the fetch through the end of the upload)
C1_RunningWithinLimit == Cardinality(Running) <= max_concurrent

\* C1 witness: the section is full and another coroutine waits for a permit
C1_Witness ==
    /\ Cardinality(Running) = max_concurrent
    /\ \E t \in Tasks : tasks[t].pc = "queued"

\* C3: every invocation the scheduler initiates (a timer firing, run_once)
\* executes the fetch job: none ends without the job having run
C3_SchedulerInvocationRunsJob == \A f \in Feeds : job_errors[f] = 0

\* C4: fetch_job returns normally for every outcome of the fetch and of the
\* upload: a finished coroutine never ended by an exception
C4_FetchJobReturns ==
    \A t \in Tasks : tasks[t].pc = "done" => tasks[t].ended = "returned"

\* C4 witness: a fetch ended by an exception that no specific clause names,
\* and the job returned
C4_Witness ==
    \E t \in Tasks :
        /\ tasks[t].pc = "done"
        /\ tasks[t].last.kind = "other"
        /\ tasks[t].ended = "returned"

C8_NonRetryableNotRetried ==
    \A t \in Tasks :
        (tasks[t].last.kind = "status" /\ tasks[t].last.code \in NonRetryableStatuses) =>
            /\ tasks[t].pc = "done"
            /\ tasks[t].raised = "NonRetryableError"
            /\ tasks[t].thrown.code = tasks[t].last.code
            /\ (tasks[t].first = tasks[t].last => tasks[t].requests = 1)

\* C8 witness: a 410 answered a feed that allows more than one attempt
C8_Witness ==
    \E t \in Tasks :
        /\ max_attempts[tasks[t].feed] > 1
        /\ tasks[t].pc = "done"
        /\ tasks[t].last = [kind |-> "status", code |-> 410]
        /\ tasks[t].requests = 1
        /\ tasks[t].raised = "NonRetryableError"

\* C9: fetch_feed issues at most max_attempts requests; exhausted by retryable
\* errors it has issued exactly max_attempts and raises the last attempt's
\* error; a success at attempt j is returned after exactly j requests
C9_AttemptsBounded ==
    \A t \in Tasks :
        /\ tasks[t].requests <= max_attempts[tasks[t].feed]
        /\ tasks[t].pc = "fetching" => tasks[t].requests < max_attempts[tasks[t].feed]
        /\ (tasks[t].pc = "done" /\ tasks[t].raised \in RetryableClasses) =>
               /\ tasks[t].requests = max_attempts[tasks[t].feed]
               /\ tasks[t].thrown = tasks[t].last
        /\ tasks[t].ok_attempt > 0 =>
               /\ tasks[t].requests = tasks[t].ok_attempt
               /\ tasks[t].last.kind = "status"
               /\ tasks[t].last.code \in 200..299

\* C9 witness: two attempts failed with different retryable errors and the
\* second one was raised
C9_Witness ==
    \E t \in Tasks :
        /\ tasks[t].pc = "done"
        /\ max_attempts[tasks[t].feed] = 2
        /\ tasks[t].requests = 2
        /\ tasks[t].first.kind = "timeout"
        /\ tasks[t].last = [kind |-> "status", code |-> 500]
        /\ tasks[t].thrown = tasks[t].last

\* C10: the step that ends a tick by a failed fetch adds exactly one
\* fetch_errors increment, labelled http_<status>, timeout, transport or
\* unknown after the error, for that feed only, and uploads nothing
C10_FetchFailureRecordedOnce ==
    [][\A t \in Tasks :
          (tasks[t].pc = "fetching" /\ tasks'[t].pc = "done") =>
              /\ fetch_errors'[tasks[t].feed] =
                     fetch_errors[tasks[t].feed] (+) SetToBag({DocumentedLabel(tasks'[t].last)})
              /\ \A g \in Feeds \ {tasks[t].feed} : fetch_errors'[g] = fetch_errors[g]
              /\ tasks'[t].writes = 0
              /\ blobs' = blobs
              /\ upload_success' = upload_success
              /\ upload_errors' = upload_errors]_vars

\* C10 witness: a tick ended by a timeout, recorded once as "timeout", with no
\* upload
C10_Witness ==
    \E t \in Tasks :
        /\ tasks[t].pc = "done"
        /\ tasks[t].last.kind = "timeout"
        /\ BagToSet(fetch_errors[tasks[t].feed]) = {"timeout"}
        /\ BagCardinality(fetch_errors[tasks[t].feed]) = 1
        /\ tasks[t].writes = 0
        /\ blobs = {}

\* the counters of feed f add up
CountersAddUp(f) ==
    fetch_total[f] = fetch_success[f] + BagCardinality(fetch_errors[f])

\* C11 (the counters alone): with no tick in flight, per feed
\* fetch_total = fetch_success + fetch_errors
C11_CounterIdentity ==
    (\A t \in Tasks : ~InFlight(t)) => \A f \in Feeds : CountersAddUp(f)

\* C11: with no tick in flight, per feed fetch_total = fetch_success +
\* fetch_errors, and a tick whose fetch succeeded, also after retried
\* failures, recorded no fetch error and left exactly one uploaded payload
\* object, the one under its key
C11_OneOutcomePerTick ==
    /\ C11_CounterIdentity
    /\ \A t \in Tasks :
          (tasks[t].pc = "done" /\ tasks[t].ok_attempt > 0) =>
              /\ tasks[t].raised = "none"
              /\ Cardinality({k \in blobs :
                     k = generate_storage_path(tasks[t].feed, tasks[t].ts, "pb")}) = 1

\* a tick whose fetch succeeded and which has ended
Succeeded(t) == tasks[t].pc = "done" /\ tasks[t].ok_attempt > 0

\* the key of the payload a tick writes
PayloadKey(t) == generate_storage_path(tasks[t].feed, tasks[t].ts, "pb")

\* lexicographic order of two keys of one feed: feed_type and url agree, the
\* timestamp decides
KeyBefore(k1, k2) == k1[1] = k2[1] /\ k1[2] = k2[2] /\ k1[3] < k2[3]

\* C12: any two successful fetches of one feed produced two different keys,
\* ordered like their fetch_start_time
C12_KeysOrderedPerFeed ==
    \A t1, t2 \in Tasks :
        (t1 # t2 /\ Succeeded(t1) /\ Succeeded(t2) /\ tasks[t1].feed = tasks[t2].feed) =>
            /\ PayloadKey(t1) # AttributeError
            /\ PayloadKey(t2) # AttributeError
            /\ PayloadKey(t1) # PayloadKey(t2)
            /\ (tasks[t1].ts < tasks[t2].ts <=> KeyBefore(PayloadKey(t1), PayloadKey(t2)))

\* C14: between two clear_cache() calls Secret Manager is asked at most once
\* for a secret, whatever the interleaving of the resolutions
C14_SecretReadOnce == \A s \in Secrets : store_reads[s] <= 1

\* the feeds with an auth reference
WithAuth == {f \in Feeds : auth[f] # "none"}

\* the scheduler of this process was never started
NeverStarted == sched = "none" /\ ~registered /\ feeds_by_id = {}

\* C15: in a process started by run(), the scheduler exists, a tick is
\* dispatched and a request is sent for a feed with auth only after its
\* resolved_value is populated; if a secret cannot be resolved run() fails and
\* the scheduler is never started
C15_NoPollUnresolved ==
    /\ ~NeverStarted => \A f \in WithAuth : resolved[f]
    /\ \A f \in WithAuth : job_errors[f] > 0 => resolved[f]
    /\ \A t \in Tasks :
          (tasks[t].requests > 0 /\ tasks[t].feed \in WithAuth) => resolved[tasks[t].feed]
    /\ (\E f \in Feeds : resolver[f] = "failed") =>
          /\ NeverStarted
          /\ run_pc \in {"resolving", "raised"}

\* C15 witness: one secret was resolved, another could not be, and run() ended
\* with the error before anything was started
C15_Witness ==
    /\ run_pc = "raised"
    /\ \E f, g \in Feeds : resolver[f] = "failed" /\ resolved[g]
    /\ NeverStarted
    /\ health = "new"

\* C19: is_running is false before start(), true once start() has returned
\* and until stop() is called, and false once stop() has returned, also when
\* stop() ran on a scheduler that was never started
C19_IsRunningLifecycle ==
    /\ run_pc \in {"init", "resolving", "raised", "ready", "created", "health_up"} =>
          ~is_running
    /\ run_pc = "waiting" => is_running
    /\ run_pc \in {"scheduler_stopped", "health_stopped", "storage_closed", "done"} =>
          ~is_running /\ sched = "none" /\ ~registered

\* C19 witness: stop() has returned on a scheduler that had been running
C19_Witness ==
    /\ run_pc = "scheduler_stopped"
    /\ feeds_by_id # {}
    /\ ~is_running

\* stop() has returned on a scheduler that was never started
C19_StopWithoutStart ==
    /\ run_pc = "scheduler_stopped"
    /\ feeds_by_id = {}
    /\ ~is_running

\* C20: after a shutdown signal the HTTP client and the blob handle are closed
\* only after the scheduler has stopped and every permit is back, and the
\* health endpoint is stopped last, after both of them are closed
C20_HealthStoppedLast ==
    /\ (http_client = "closed" \/ storage_writer = "closed") =>
          /\ ~is_running
          /\ permits = max_concurrent
    /\ (shutdown_event /\ health = "stopped") =>
          (http_client = "closed" /\ storage_writer = "closed")


\* the shards that answered True for feed f
Claiming(f) == {i \in ShardIndices : <<i, f, TRUE>> \in answers}

\* every shard of the deployment has given its answer for feed f
AllAnswered(f) ==
    \A i \in ShardIndices : \E b \in BOOLEAN : <<i, f, b>> \in answers

\* C17: for every feed and every number of shards T > 0, a call of
\* should_handle_feed(f, i, T) gives one answer however often and in whichever
\* process it is made, at most one shard index in [0, T) is answered True, and
\* once all T indices have answered exactly one of them claims the feed
C17_ExactlyOneShard ==
    \A f \in Feeds :
        /\ \A i \in ShardIndices :
              ~(<<i, f, TRUE>> \in answers /\ <<i, f, FALSE>> \in answers)
        /\ Cardinality(Claiming(f)) <= 1
        /\ AllAnswered(f) => Cardinality(Claiming(f)) = 1

\* C17 witness: three or more shards, every shard has answered for every
\* feed, and two feeds went to different shards
C17_Witness ==
    /\ n_shards >= 3
    /\ \A f \in Feeds : AllAnswered(f)
    /\ \E f, g \in Feeds : Claiming(f) # Claiming(g)

RECURSIVE RowsOfFirst(_, _, _)
\* the rows of the first n objects of the partition that can be processed, in
\* the order of the objects
RowsOfFirst(ft, files, n) ==
    IF n = 0 THEN << >>
    ELSE RowsOfFirst(ft, files, n - 1)
             \o (IF files[n].status = "ok" THEN Records(ft, files[n]) ELSE << >>)

\* every object of the partition downloads and either parses or raises
\* DecodeError or ValueError
OnlyMalformed ==
    \A i \in 1..Len(pb_files) : pb_files[i].status \in {"ok", "DecodeError", "ValueError"}

\* C22: an object that raises DecodeError or ValueError never ends the
\* compaction: the loop goes on with the next object, the rows counted so far
\* are the rows of the objects that could be processed, and the Output names
\* all input objects and the rows of the remaining ones
C22_BadObjectsSkipped ==
    /\ (OnlyMalformed /\ uploads = 0) => compact_pc # "raised"
    /\ (compact_pc = "raised" /\ uploads = 0) =>
           pb_files[file_pos].status \in {"download_error", "TypeError"}
    /\ compact_pc \in {"loop", "upload"} =>
           /\ buffer = RowsOfFirst(asset_type, pb_files, file_pos - 1)
           /\ records_count = Len(buffer)
    /\ compact_pc = "done" =>
           /\ output[1] = Len(pb_files)
           /\ output[2] = Len(RowsOfFirst(asset_type, pb_files, Len(pb_files)))

\* C22 witness: the compaction is done, its first object raised DecodeError, a
\* later one gave rows, and these rows are written
C22_Witness ==
    /\ compact_pc = "done"
    /\ Len(pb_files) > 1
    /\ pb_files[1].status = "DecodeError"
    /\ output[2] > 0
    /\ parquet_bucket # {}

\* C23 as stated: a finished compaction of a partition with at least one
\* input object has written exactly one object, under the partition's
\* data.parquet name, and returns (inputs, rows); without input objects it
\* has written nothing and returns (0, 0)
C23_OneObjectPerPartition ==
    compact_pc = "done" =>
        IF pb_files # << >>
        THEN /\ Cardinality(parquet_bucket) = 1
             /\ \A o \in parquet_bucket :
                    o[1] = <<asset_type, partition_date, feed_url_encoded, "data.parquet">>
             /\ output = <<Len(pb_files), records_count>>
        ELSE /\ parquet_bucket = {}
             /\ output = <<0, 0>>

\* C23 amended: a finished compaction whose inputs gave at least one row has
\* written exactly one object, under the partition's data.parquet name, holding
\* these rows, and returns (inputs, rows); when the inputs gave no row, or
\* there is no input, it has written nothing and returns (inputs, 0)
C23_OneObjectWhenRows ==
    compact_pc = "done" =>
        LET rows == RowsOfFirst(asset_type, pb_files, Len(pb_files))
        IN  IF rows # << >>
            THEN /\ parquet_bucket =
                        {<< <<asset_type, partition_date, feed_url_encoded, "data.parquet">>,
                            rows >>}
                 /\ output = <<Len(pb_files), Len(rows)>>
            ELSE /\ parquet_bucket = {}
                 /\ output = <<Len(pb_files), 0>>

\* C23 witness: a finished compaction of a partition with a readable input
\* object that has no entity of the asset's type: nothing is written
C23_Witness ==
    /\ compact_pc = "done"
    /\ \E i \in 1..Len(pb_files) : pb_files[i].status = "ok" /\ pb_files[i].feed # << >>
    /\ parquet_bucket = {}
    /\ output = <<Len(pb_files), 0>>

\* C24: upload_from_file is called at most once, only with the loop over the
\* inputs exhausted and the writer closed, the object it stores holds the rows
\* of all inputs, and a compaction that raised before it left nothing under
\* the output name
C24_UploadAfterAllInputs ==
    /\ uploads <= 1
    /\ uploads > 0 => (writer = "closed" /\ file_pos > Len(pb_files))
    /\ parquet_bucket # {} =>
           /\ uploads = 1
           /\ compact_pc = "done"
           /\ \A o \in parquet_bucket :
                  o[2] = RowsOfFirst(asset_type, pb_files, Len(pb_files))
    /\ compact_pc \in {"loop", "upload", "raised"} => parquet_bucket = {}

\* C24 witness: the compaction raised at a later object after rows of an
\* earlier one had been written to the writer; the writer is closed and the
\* bucket is empty
C24_Witness ==
    /\ compact_pc = "raised"
    /\ uploads = 0
    /\ records_count > 0
    /\ writer = "closed"
    /\ parquet_bucket = {}

\* the field of an entity an extractor looks at
FieldOf(ft) ==
    CASE ft = "vehicle_positions" -> "vehicle"
      [] ft = "trip_updates" -> "trip_update"
      [] OTHER -> "alert"

\* the number of rows the law gives to one entity
RowsByLaw(ft, entity) ==
    IF FieldOf(ft) \notin entity.fields THEN 0
    ELSE IF ft = "vehicle_positions" THEN 1
    ELSE IF entity.children > 1 THEN entity.children
    ELSE 1

\* C25: an extractor emits, for every entity of the FeedMessage, one row when
\* it has a vehicle (vehicle positions), max(1, number of stop_time_update)
\* rows when it has a trip_update (trip updates), max(1, number of
\* informed_entity) rows when it has an alert (service alerts), and no row for
\* an entity without the field it looks at
C25_RowCountLaw ==
    extractor # "none" =>
        /\ \A i \in 1..Len(feed_message) :
               Cardinality({k \in 1..Len(records) : records[k][1] = i})
                   = RowsByLaw(extractor, feed_message[i])
        /\ \A k \in 1..Len(records) : records[k][1] \in 1..Len(feed_message)

\* C25 witness: trip updates extracted from a FeedMessage with a trip_update
\* without stop_time_update and an entity that has only a vehicle: one row
C25_Witness ==
    /\ extractor = "trip_updates"
    /\ Len(feed_message) = 2
    /\ feed_message[1] = [fields |-> {"trip_update"}, children |-> 0]
    /\ feed_message[2].fields = {"vehicle"}
    /\ Len(records) = 1

\* C26: a valid http:// or https:// URL taken to its partition key and back
\* is the URL it was
C26_PartitionKeyRoundTrip ==
    codec_pc = "back" => key_url = feed_url

\* C27: for every fetch whose payload was handed to StorageWriter.write,
\* generate_storage_path yields a key made of the feed's type, the feed's URL
\* and the fetch timestamp, with the extension pb, so that the key gives
\* (feed_type, url, timestamp) back
C27_KeyRecoversFetch ==
    \A t \in Tasks :
        (tasks[t].pc = "done" /\ tasks[t].ok_attempt > 0) =>
            LET key == generate_storage_path(tasks[t].feed, tasks[t].ts, "pb")
            IN  /\ key # AttributeError
                /\ Len(key) = 4
                /\ key[1] = feed_type[tasks[t].feed]
                /\ key[2] = url[tasks[t].feed]
                /\ key[3] = tasks[t].ts
                /\ key[4] = "pb"

\* C28: the list flatten_agencies returns for a catalog that passed
\* validation has no two feeds with the same id
C28_FlattenedIdsUnique ==
    load_pc = "flattened" =>
        \A i, j \in 1..Len(flat_feeds) :
            flat_feeds[i].id = flat_feeds[j].id => i = j

RECURSIVE Occurrences(_, _, _)

Occurrences(q, pair, i) ==
    IF i > Len(q) THEN 0
    ELSE (IF q[i] = pair THEN 1 ELSE 0) + Occurrences(q, pair, i + 1)

\* C32: for a feed whose URL carries query parameters and whose auth placement
\* is query, the request sent has every configured pair as often as the URL
\* has it, repeated names and empty values included, plus the credential under
\* auth.key
C32_QueryParamsPreserved ==
    (request_pc = "sent" /\ auth_type = "query" /\ url_query # << >>) =>
        /\ \A i \in 1..Len(url_query) :
              CopiesIn(url_query[i], request_query) =
                  Occurrences(url_query, url_query[i], 1)
        /\ CopiesIn(<<auth_key, resolved_value>>, request_query) = 1
\* C33: for any interleaving of concurrent write calls on one writer, until
\* close() is called at most one blob-store handle is created and every write
\* has that same handle
C33_OneSharedHandle ==
    closes = 0 =>
        /\ handles <= 1
        /\ \A w \in 1..MaxWriters :
              writers[w].pc # "idle" => writers[w].handle = storage /\ storage = 1

\* C33 witness: close() not called, two write calls in progress and a third
\* ended, one handle made and all three have it
C33_Witness ==
    /\ closes = 0
    /\ handles = 1
    /\ \E v, w, x \in 1..MaxWriters :
          /\ v # w /\ w # x /\ v # x
          /\ writers[v].pc = "got" /\ writers[w].pc = "got"
          /\ writers[x].pc \in {"raised", "returned"}
          /\ writers[v].handle = 1 /\ writers[w].handle = 1 /\ writers[x].handle = 1
\* the step ends the tick of coroutine t by a failed fetch or a failed upload
TickFails(t) ==
    /\ tasks[t].pc \in {"fetching", "write_pb", "write_meta"}
    /\ tasks'[t].pc = "done"
    /\ upload_success'[tasks[t].feed] = upload_success[tasks[t].feed]

\* the five counters of feed g
CountersOf(g) ==
    <<fetch_total[g], fetch_success[g], fetch_errors[g], upload_success[g],
      upload_errors[g]>>

RowBefore(r, s) ==
    \/ r[1] < s[1]
    \/ r[1] = s[1] /\ r[2] < s[2]
    \/ r[1] = s[1] /\ r[2] = s[2] /\ r[3] < s[3]

\* the rows are in the order of RowBefore
InOrder(rows) == \A p, q \in 1..Len(rows) : p < q => RowBefore(rows[p], rows[q])

\* C35: the rows written to the writer, and the rows of the object uploaded,
\* are in the order of the names of the input objects they came from, and
\* within one input object in the order of its entities and of each entity's
\* children
C35_RowsInKeyOrder ==
    /\ InOrder(buffer)
    /\ \A o \in parquet_bucket : InOrder(o[2])

\* C35 witness: the bucket listed a later object before an earlier one, both
\* gave rows, one of them for several children, and the object is uploaded
C35_Witness ==
    /\ compact_pc = "done"
    /\ Len(listed) = 2
    /\ listed[1].name > listed[2].name
    /\ \E o \in parquet_bucket :
          /\ \E p, q \in 1..Len(o[2]) : o[2][p][1] # o[2][q][1]
          /\ \E p, q \in 1..Len(o[2]) : o[2][p][2] = o[2][q][2] /\ o[2][p][3] # o[2][q][3]
\* C36: fetch_feed_safe returns the FetchResult when the fetch succeeds and
\* returns None, never raising, when the fetch fails with any error
C36_SafeNeverRaises ==
    /\ safe_pc # "raised"
    /\ safe_pc = "returned" =>
          LET last == safe_outcomes[Len(safe_outcomes)]
          IN  safe_result =
                  IF last.kind = "status" /\ IsSuccess(last.code)
                  THEN "FetchResult" ELSE "None"
\* C37: once run() has created the HTTP client and the storage writer, both
\* are closed when run() is left, by its return or by an exception, also when
\* a start fails and when a step of the shutdown sequence raises
C37_ClientsClosedOnExit ==
    (run_pc \in {"done", "failed"} /\ http_client # "none") =>
        /\ http_client = "closed"
        /\ storage_writer = "closed"
\* the status is neither 2xx nor one of 400, 401, 403, 404, 410
OtherStatus(r) ==
    /\ r.kind = "status"
    /\ r.code \notin 200..299
    /\ r.code \notin NonRetryableStatuses

\* C38: a response with a status that is neither 2xx nor 400, 401, 403, 404,
\* 410 (408, 429, 500) is retried: with attempts left the fetch goes on and
\* nothing is recorded, and when it was the last of max_attempts attempts
\* fetch_feed raises HTTPStatusError for it and that step records http_<status>
\* once, for that feed only
C38_OtherStatusRetried ==
    [][\A t \in Tasks :
          (/\ tasks[t].pc = "fetching"
           /\ tasks'[t].requests > tasks[t].requests
           /\ OtherStatus(tasks'[t].last)) =>
              IF tasks'[t].requests < max_attempts[tasks[t].feed]
              THEN /\ tasks'[t].pc = "fetching"
                   /\ fetch_errors' = fetch_errors
              ELSE /\ tasks'[t].pc = "done"
                   /\ tasks'[t].requests = max_attempts[tasks[t].feed]
                   /\ tasks'[t].raised = "HTTPStatusError"
                   /\ tasks'[t].thrown = tasks'[t].last
                   /\ fetch_errors'[tasks[t].feed] =
                          fetch_errors[tasks[t].feed]
                              (+) SetToBag({"http_" \o ToString(tasks'[t].last.code)})
                   /\ \A g \in Feeds \ {tasks[t].feed} :
                          fetch_errors'[g] = fetch_errors[g]]_vars

\* C38 witness: a 408 was retried and the 429 that followed, the last attempt
\* allowed, ended the tick recorded as http_429
C38_Witness ==
    \E t \in Tasks :
        /\ tasks[t].pc = "done"
        /\ max_attempts[tasks[t].feed] = 2
        /\ tasks[t].first = [kind |-> "status", code |-> 408]
        /\ tasks[t].last = [kind |-> "status", code |-> 429]
        /\ tasks[t].raised = "HTTPStatusError"
        /\ BagToSet(fetch_errors[tasks[t].feed]) = {"http_429"}
\* the instance has no scheduler: stop() has returned and start() was not
\* called since, or it was never started
Stopped == sched = "none"

\* C39: while the instance is stopped, after any sequence of start() and
\* stop() calls, a timer that fires does not call the fetch job: no call is
\* made and no coroutine of the job appears
C39_NoTickAfterStop ==
    [][(Stopped /\ Stopped') =>
          /\ job_errors' = job_errors
          /\ calls' = calls
          /\ tasks' = tasks]_vars

\* C39 witness: start() was called twice before stop(), stop() has returned,
\* and a timer that fired afterwards returned without calling the job
C39_Witness ==
    /\ Stopped
    /\ starts = 2
    /\ \E f \in Feeds : ignored[f] > 0
    /\ \A f \in Feeds : job_errors[f] = 0
====
